---- MODULE Spec2Model ----
(***************************************************************************)
(* The template sender form of src/src/pages/Index.tsx: the form values,   *)
(* the four pieces of React state of the Index component, the validation   *)
(* schema, the recipient-phone onChange filter and the async onSubmit      *)
(* handler, whose two awaits (fetch, response.json) are the points where   *)
(* an invocation is suspended.                                             *)
(***************************************************************************)
EXTENDS Integers, Sequences, FiniteSets, TLC

VARIABLES
    form,             \* react-hook-form field values (useForm, defaultValues)
    isSubmitting,     \* useState(false)
    sentPayload,      \* useState(null)
    webhookResponse,  \* useState(null)
    error,            \* useState(null)
    tasks,            \* suspended invocations of onSubmit (one record each)
    submits,          \* submit events dispatched on the form
    validSubmits,     \* submit events whose values passed formSchema
    netCalls,         \* calls of fetch issued
    toasts,           \* calls of toast, counted per variant
    lastToast,        \* argument of the latest call of toast
    completed,        \* invocations of onSubmit that ran to their end
    last              \* what the network answered to the latest invocation

vars == <<form, isSubmitting, sentPayload, webhookResponse, error, tasks,
          submits, validSubmits, netCalls, toasts, lastToast, completed, last>>

---------------------------------------------------------------------------
(* Bounds of the model *)

MaxSubmits == 3

MaxPhoneLen == 14

---------------------------------------------------------------------------
(* JavaScript values: a type tag and the result of String(v) *)

Null == [type |-> "null", str |-> "null"]

Undefined == [type |-> "undefined", str |-> "undefined"]

Str(s) == [type |-> "string", str |-> s]

EmptyArray == [type |-> "array", str |-> ""]

\* ToBoolean, as used by || and && on these values
Truthy(v) ==
    CASE v.type \in {"null", "undefined"} -> FALSE
      [] v.type = "string"  -> v.str # ""
      [] v.type = "number"  -> v.str # "0"
      [] v.type = "boolean" -> v.str = "true"
      [] OTHER -> TRUE

\* a JSON object, with its own property "message" (Undefined: no such property)
Obj(m) == [type |-> "object", str |-> "[object Object]", message |-> m]

JFalse == [type |-> "boolean", str |-> "false"]

MessageValues ==
    {Undefined, Str("ok"), Str("internal failure"), Str(""), EmptyArray}

\* what response.json() can resolve with
JsonBodies == {Null, JFalse} \cup {Obj(m) : m \in MessageValues}

\* what fetch can resolve with
Statuses == {200, 299, 300, 500}

Thrown(isErr, m) == [instanceOfError |-> isErr, message |-> m]

NoThrown == Thrown(FALSE, Undefined)

\* what fetch and response.json() can reject with
ThrownValues ==
    { Thrown(TRUE, Str("Failed to fetch")),
      Thrown(TRUE, Str("")),
      Thrown(FALSE, Undefined) }

---------------------------------------------------------------------------
(* Configuration *)

TEMPLATES == {"hello_world", "order_update", "appointment_reminder"}

PHONE_IDS == {"785310631336841", "123456789012345"}

defaultValues == [template |-> "", phoneNumberId |-> "", recipientPhone |-> <<>>]

---------------------------------------------------------------------------
(* Text of the recipient-phone field: a sequence of one-character strings *)

Digits == {"0", "1", "2", "3", "4", "5", "6", "7", "8", "9"}

Rep(c, n) == [i \in 1..n |-> c]

\* value.replace(/\D/g, "")
RECURSIVE StripNonDigits(_)
StripNonDigits(s) ==
    IF s = <<>> THEN <<>>
    ELSE IF Head(s) \in Digits
         THEN <<Head(s)>> \o StripNonDigits(Tail(s))
         ELSE StripNonDigits(Tail(s))

---------------------------------------------------------------------------
(* Validation schema *)

\* the pattern with \d{10,12} in place of \d{10,11}
PhonePatternTooLong ==
    << [chars |-> {"5"}, min |-> 1, max |-> 1],
       [chars |-> {"5"}, min |-> 1, max |-> 1],
       [chars |-> Digits, min |-> 10, max |-> 12] >>

\* /^55\d{10,11}$/ : the items between the anchors, each a character class
\* with its repetition bounds
PhonePattern ==
    << [chars |-> {"5"}, min |-> 1, max |-> 1],
       [chars |-> {"5"}, min |-> 1, max |-> 1],
       [chars |-> Digits, min |-> 10, max |-> 11] >>

\* whether items k.. of the pattern match s from position i up to its end
RECURSIVE MatchFrom(_, _, _, _)
MatchFrom(pat, s, i, k) ==
    IF k > Len(pat)
    THEN i = Len(s) + 1
    ELSE \E n \in (pat[k].min)..(pat[k].max) :
            /\ i + n - 1 <= Len(s)
            /\ \A j \in i..(i + n - 1) : s[j] \in pat[k].chars
            /\ MatchFrom(pat, s, i + n, k + 1)

RegexTest(pat, s) == MatchFrom(pat, s, 1, 1)

\* the schema without the .regex(...) check of recipientPhone
formSchemaNoRegex(values) ==
    [ template |->
        IF values.template = "" THEN "Por favor, selecione um template" ELSE "",
      phoneNumberId |->
        IF values.phoneNumberId = ""
        THEN "Por favor, selecione um ID de telefone" ELSE "",
      recipientPhone |->
        IF Len(values.recipientPhone) < 1
        THEN "Por favor, insira o número do destinatário" ELSE "" ]

\* the first issue zod reports for each field, "" when the field passes
formSchema(values) ==
    [ template |->
        IF values.template = "" THEN "Por favor, selecione um template" ELSE "",
      phoneNumberId |->
        IF values.phoneNumberId = ""
        THEN "Por favor, selecione um ID de telefone" ELSE "",
      recipientPhone |->
        IF Len(values.recipientPhone) < 1
        THEN "Por favor, insira o número do destinatário"
        ELSE IF ~RegexTest(PhonePattern, values.recipientPhone)
             THEN "Formato inválido. Use: 5599999999999 (somente números)"
             ELSE "" ]

Passes(values) ==
    LET issues == formSchema(values)
    IN  \A f \in DOMAIN issues : issues[f] = ""

---------------------------------------------------------------------------
(* Initial state: the component as mounted *)

NoAnswer == [kind |-> "none", status |-> 0, body |-> Null, thrown |-> NoThrown,
             payload |-> Null]

NoToast == [title |-> "", description |-> "", variant |-> "none"]

Init ==
    /\ form = defaultValues
    /\ isSubmitting = FALSE
    /\ sentPayload = Null
    /\ webhookResponse = Null
    /\ error = Null
    /\ tasks = {}
    /\ submits = 0
    /\ validSubmits = 0
    /\ netCalls = 0
    /\ toasts = [default |-> 0, destructive |-> 0]
    /\ lastToast = NoToast
    /\ completed = 0
    /\ last = NoAnswer

---------------------------------------------------------------------------
(* Editing the fields *)

effects == <<isSubmitting, sentPayload, webhookResponse, error, tasks, submits,
             validSubmits, netCalls, toasts, lastToast, completed, last>>

\* Select onValueChange={field.onChange} of the template field
SelectTemplate(v) ==
    /\ form' = [form EXCEPT !.template = v]
    /\ UNCHANGED effects

\* Select onValueChange={field.onChange} of the phone number ID field
SelectPhoneId(v) ==
    /\ form' = [form EXCEPT !.phoneNumberId = v]
    /\ UNCHANGED effects

\* Input onChange of the recipient phone field; raw is e.target.value
ChangePhone(raw) ==
    /\ form' = [form EXCEPT !.recipientPhone = StripNonDigits(raw)]
    /\ UNCHANGED effects

---------------------------------------------------------------------------
(* onSubmit *)

WEBHOOK_URL == "https://example-n8n-webhook-url.com/"

\* the payload object; t is new Date().toISOString(), the time of the submit
\* event (the events are numbered in the order they happen)
buildPayload(values, t) ==
    [ messaging_product |-> "whatsapp",
      from_phone_number_id |-> values.phoneNumberId,
      to |-> values.recipientPhone,
      type |-> "template",
      template |-> [name |-> values.template, language |-> [code |-> "en_US"]],
      debug |-> [ui_origin |-> "lovable-web-sender", sent_at |-> t] ]

\* toast(...): one notification
toast(t) ==
    /\ toasts' = [toasts EXCEPT ![t.variant] = @ + 1]
    /\ lastToast' = t

\* onSubmit without setSentPayload(payload) before the call of fetch
onSubmitNoEarlyPayload(values, t) ==
    LET payload == buildPayload(values, t)
    IN  /\ isSubmitting' = TRUE
        /\ error' = Null
        /\ webhookResponse' = Null
        /\ sentPayload' = Null
        /\ netCalls' = netCalls + 1
        /\ last' = NoAnswer
        /\ tasks' = tasks \cup
                    { [id |-> netCalls + 1, pc |-> "fetch", url |-> WEBHOOK_URL,
                       payload |-> payload, status |-> 0] }

\* onSubmit from its first line to the await of fetch: the four setters, the
\* payload, setSentPayload(payload) and the call of fetch
onSubmit(values, t) ==
    LET payload == buildPayload(values, t)
    IN  /\ isSubmitting' = TRUE
        /\ error' = Null
        /\ webhookResponse' = Null
        /\ sentPayload' = payload
        /\ netCalls' = netCalls + 1
        /\ last' = NoAnswer
        /\ tasks' = tasks \cup
                    { [id |-> netCalls + 1, pc |-> "fetch", url |-> WEBHOOK_URL,
                       payload |-> payload, status |-> 0] }

\* form.handleSubmit(onSubmit): the resolver validates the current values and
\* onSubmit is called only when they pass
handleSubmit ==
    /\ submits' = submits + 1
    /\ IF Passes(form)
       THEN /\ validSubmits' = validSubmits + 1
            /\ onSubmit(form, submits + 1)
       ELSE UNCHANGED <<validSubmits, isSubmitting, error, webhookResponse,
                        sentPayload, netCalls, tasks, last>>
    /\ UNCHANGED <<form, toasts, lastToast, completed>>

\* a submit button that is never disabled
SubmitNeverDisabled == FALSE

\* disabled={isSubmitting} of the submit button
SubmitDisabled == isSubmitting

\* the user submits the form (a click on the button, or Enter in the field,
\* which the browser turns into a click on the form's submit button)
ClickSubmit ==
    /\ ~SubmitDisabled
    /\ submits < MaxSubmits
    /\ handleSubmit

\* a success test that accepts status 200 alone
ResponseOkOnly200(status) == status = 200

\* response.ok
ResponseOk(status) == status \in 200..299

\* reading data.message of null throws this
TypeErrorOfNull ==
    Thrown(TRUE, Str("Cannot read properties of null (reading 'message')"))

\* the value thrown inside if (!response.ok): new Error(data.message ||
\* `Erro: ${response.status}`), or the TypeError of reading a property of null
thrownOnFailure(status, data) ==
    IF data.type \in {"null", "undefined"}
    THEN TypeErrorOfNull
    ELSE LET m == IF data.type = "object" THEN data.message ELSE Undefined
         IN  Thrown(TRUE, Str(IF Truthy(m) THEN m.str
                              ELSE "Erro: " \o ToString(status)))

\* the message the catch block takes from the caught value
errorMessageOf(err) ==
    IF err.instanceOfError THEN err.message
    ELSE Str("Erro desconhecido ao enviar")

\* a catch block that shows no notification
catchBlockSilent(err) ==
    /\ error' = errorMessageOf(err)
    /\ UNCHANGED <<toasts, lastToast, webhookResponse>>

\* catch (err) { ... }
catchBlock(err) ==
    /\ error' = errorMessageOf(err)
    /\ toast([title |-> "Erro ao enviar",
              description |-> errorMessageOf(err).str,
              variant |-> "destructive"])
    /\ UNCHANGED webhookResponse

\* the statements after the if, when nothing was thrown
successBlock(data) ==
    /\ webhookResponse' = data
    /\ toast([title |-> "Mensagem enviada com sucesso!",
              description |-> "O template foi enviado para o webhook.",
              variant |-> "default"])
    /\ UNCHANGED error

\* setIsSubmitting(false) as the last statement of try instead of finally
finallyBlockOnlyAfterTry(task, answer) ==
    /\ isSubmitting' = (error' # Null)
    /\ tasks' = tasks \ {task}
    /\ completed' = completed + 1
    /\ last' = answer
    /\ UNCHANGED <<form, sentPayload, submits, validSubmits, netCalls>>

\* finally { setIsSubmitting(false) } and the end of the invocation
finallyBlock(task, answer) ==
    /\ isSubmitting' = FALSE
    /\ tasks' = tasks \ {task}
    /\ completed' = completed + 1
    /\ last' = answer
    /\ UNCHANGED <<form, sentPayload, submits, validSubmits, netCalls>>

Answer(kind, task, status, body, thrown) ==
    [kind |-> kind, status |-> status, body |-> body, thrown |-> thrown,
     payload |-> task.payload]

\* the promise of fetch resolves with a response of this status: the
\* invocation goes on to await response.json()
FetchResolved(task, status) ==
    /\ task.pc = "fetch"
    /\ tasks' = (tasks \ {task}) \cup {[task EXCEPT !.pc = "json", !.status = status]}
    /\ UNCHANGED <<form, isSubmitting, sentPayload, webhookResponse, error,
                   submits, validSubmits, netCalls, toasts, lastToast,
                   completed, last>>

\* the promise of fetch rejects
FetchRejected(task, thrown) ==
    /\ task.pc = "fetch"
    /\ catchBlock(thrown)
    /\ finallyBlock(task, Answer("fetchRejected", task, 0, Null, thrown))

\* the promise of response.json() rejects
JsonRejected(task, thrown) ==
    /\ task.pc = "json"
    /\ catchBlock(thrown)
    /\ finallyBlock(task, Answer("jsonRejected", task, task.status, Null, thrown))

\* the promise of response.json() resolves with the parsed body
JsonResolved(task, data) ==
    /\ task.pc = "json"
    /\ IF ~ResponseOk(task.status)
       THEN catchBlock(thrownOnFailure(task.status, data))
       ELSE successBlock(data)
    /\ finallyBlock(task, Answer("response", task, task.status, data, NoThrown))

---------------------------------------------------------------------------
(* The form in use *)

\* values of e.target.value: a short number, a formatted one of 13 digits and
\* a plain one of 12 digits
RawPhones ==
    { <<"1", "2", "3">>,
      <<"+", "5", "5", " ", "(", "9", "9", ")", " ">> \o Rep("9", 5)
          \o <<"-">> \o Rep("9", 4),
      <<"5", "5">> \o Rep("9", 10) }

Next ==
    \/ \E v \in TEMPLATES : SelectTemplate(v)
    \/ \E v \in PHONE_IDS : SelectPhoneId(v)
    \/ \E raw \in RawPhones : ChangePhone(raw)
    \/ ClickSubmit
    \/ \E task \in tasks : \E status \in Statuses : FetchResolved(task, status)
    \/ \E task \in tasks : \E thrown \in ThrownValues : FetchRejected(task, thrown)
    \/ \E task \in tasks : \E thrown \in ThrownValues : JsonRejected(task, thrown)
    \/ \E task \in tasks : \E data \in JsonBodies : JsonResolved(task, data)

Spec == Init /\ [][Next]_vars

\* the browser settles every promise of fetch and of response.json()
Settle ==
    \E task \in tasks :
        \/ \E status \in Statuses : FetchResolved(task, status)
        \/ \E thrown \in ThrownValues : FetchRejected(task, thrown)
        \/ \E thrown \in ThrownValues : JsonRejected(task, thrown)
        \/ \E data \in JsonBodies : JsonResolved(task, data)

FairSpec == Spec /\ WF_vars(Settle)

---------------------------------------------------------------------------
(* Typing into the recipient phone field, one key at a time *)

Keys == {"5", "9", "a", "-"}

\* a key typed at the end of the field's text
TypeKey(c) ==
    /\ Len(form.recipientPhone) < MaxPhoneLen
    /\ ChangePhone(Append(form.recipientPhone, c))

\* the last character deleted
Backspace ==
    /\ form.recipientPhone # <<>>
    /\ ChangePhone(SubSeq(form.recipientPhone, 1, Len(form.recipientPhone) - 1))

NextTyping ==
    \/ \E c \in Keys : TypeKey(c)
    \/ Backspace

SpecTyping == Init /\ [][NextTyping]_vars

---------------------------------------------------------------------------
(* Vocabulary of the properties *)

\* the latest invocation of onSubmit has run to its end
AttemptEnded == last.kind # "none"

\* it ended because fetch or response.json() threw
AttemptThrew == last.kind \in {"fetchRejected", "jsonRejected"}

\* it ended with a parsed body
AttemptAnswered == last.kind = "response"

Is2xx(status) == 200 <= status /\ status <= 299

\* non-null and non-empty
Populated(v) == v # Null /\ v.str # ""

\* "55" followed by 10 or 11 digits
Is55Plus10Or11Digits(s) ==
    /\ Len(s) \in {12, 13}
    /\ s[1] = "5"
    /\ s[2] = "5"
    /\ \A i \in 3..Len(s) : s[i] \in Digits

FieldsPass(values) ==
    /\ values.template # ""
    /\ values.phoneNumberId # ""
    /\ values.recipientPhone # <<>>
    /\ Is55Plus10Or11Digits(values.recipientPhone)

\* the form values a request was built from
ValuesOf(payload) ==
    [ template |-> payload.template.name,
      phoneNumberId |-> payload.from_phone_number_id,
      recipientPhone |-> payload.to ]

---------------------------------------------------------------------------
(* Properties *)

\* C1: isSubmitting is true exactly while an invocation of onSubmit is
\* suspended on its network call (fetch or response.json() not yet settled),
\* false otherwise, and every started submission leads to isSubmitting being
\* false again, also when the call or the parsing throws.
C1_SubmittingExactlyWhilePending ==
    /\ [](isSubmitting <=> tasks # {})
    /\ [](isSubmitting => <>(~isSubmitting))
    /\ [][completed' = completed + 1 => ~isSubmitting']_vars

C1_Witness ==
    /\ ~isSubmitting
    /\ last.kind = "jsonRejected"
    /\ completed = 2

\* C2: once an attempt has completed, exactly one of webhookResponse and
\* error is populated, whatever the status, the body or the thrown value.
C2_ExactlyOnePopulated ==
    AttemptEnded => (Populated(webhookResponse) # Populated(error))

\* C3: a submit event whose fields fail validation issues no network call,
\* and every request that reaches the network was built from fields that
\* pass.
C3_NoCallWhenInvalid ==
    /\ [](\A task \in tasks : FieldsPass(ValuesOf(task.payload)))
    /\ [][(submits' = submits + 1 /\ ~FieldsPass(form))
            => (netCalls' = netCalls /\ tasks' = tasks)]_vars

C3_Witness ==
    /\ submits = 1
    /\ netCalls = 0
    /\ form.template # ""
    /\ form.phoneNumberId # ""
    /\ form.recipientPhone = <<"1", "2", "3">>

\* C4: whatever is typed, the stored recipientPhone holds digits only, and it
\* passes validation exactly when it is "55" followed by 10 or 11 digits.
C4_DigitsOnlyAndPattern ==
    /\ \A i \in 1..Len(form.recipientPhone) : form.recipientPhone[i] \in Digits
    /\ (formSchema(form).recipientPhone = "")
         <=> Is55Plus10Or11Digits(form.recipientPhone)

C4_Witness ==
    /\ Len(form.recipientPhone) = 13
    /\ formSchema(form).recipientPhone = ""

\* C5: while the network call of an attempt is pending sentPayload already
\* holds that attempt's payload, and it still holds it when the attempt ends
\* in failure (non-2xx status or thrown error).
C5_PayloadKeptOnFailure ==
    /\ \A task \in tasks : sentPayload = task.payload
    /\ (AttemptThrew \/ (AttemptAnswered /\ ~Is2xx(last.status)))
         => (sentPayload # Null /\ sentPayload = last.payload)

C5_Witness ==
    /\ AttemptAnswered
    /\ last.status = 500
    /\ error = Str("internal failure")
    /\ sentPayload # Null

\* C6: after a non-2xx answer with a JSON body, error is the body's message
\* when it has one (a non-empty message), otherwise "Erro: <status>";
\* webhookResponse stays null and a failure notification is shown.
C6_ErrorFromMessageOrStatus ==
    (AttemptAnswered /\ ~Is2xx(last.status)) =>
        /\ error = IF last.body.type = "object" /\ Truthy(last.body.message)
                   THEN Str(last.body.message.str)
                   ELSE Str("Erro: " \o ToString(last.status))
        /\ webhookResponse = Null
        /\ lastToast.variant = "destructive"

\* C7: when fetch or response.json() throws, nothing escapes: error is the
\* thrown value's message, or "Erro desconhecido ao enviar" when the thrown
\* value carries no non-empty message, and webhookResponse stays null.
C7_ErrorFromThrown ==
    AttemptThrew =>
        /\ error = IF Truthy(last.thrown.message)
                   THEN last.thrown.message
                   ELSE Str("Erro desconhecido ao enviar")
        /\ webhookResponse = Null

\* C8: after an answer with a status in 200-299 and a body that parses,
\* webhookResponse is the parsed body, error is null and the success
\* notification is shown.
C8_SuccessKeepsBody ==
    (AttemptAnswered /\ Is2xx(last.status)) =>
        /\ webhookResponse = last.body
        /\ error = Null
        /\ lastToast.variant = "default"
        /\ lastToast.title = "Mensagem enviada com sucesso!"

C8_Witness ==
    /\ AttemptAnswered
    /\ last.status = 299
    /\ webhookResponse = Obj(Str("ok"))

\* C9: the network calls issued are as many as the submissions that passed
\* validation, each belonging to one attempt (no retry), and each completed
\* attempt shows exactly one notification, of one variant.
C9_OneCallOneToast ==
    /\ [](/\ netCalls = validSubmits
          /\ netCalls = completed + Cardinality(tasks)
          /\ toasts.default + toasts.destructive = completed)
    /\ [][completed' = completed + 1 =>
            \/ /\ toasts'.default = toasts.default + 1
               /\ toasts'.destructive = toasts.destructive
            \/ /\ toasts'.default = toasts.default
               /\ toasts'.destructive = toasts.destructive + 1]_vars

C9_Witness ==
    /\ submits = 3
    /\ validSubmits = 2
    /\ completed = 2
    /\ toasts.default = 1
    /\ toasts.destructive = 1

\* C10: at most one submission is in flight: a network call is issued only
\* when isSubmitting is false and no other call is pending.
C10_AtMostOneInFlight ==
    /\ [](Cardinality(tasks) <= 1)
    /\ [][netCalls' # netCalls => (~isSubmitting /\ tasks = {})]_vars

C10_Witness ==
    /\ isSubmitting
    /\ Cardinality(tasks) = 1
    /\ netCalls = 2
    /\ completed = 1

====
